---- MODULE Spec2Model ----
(***************************************************************************)
(* Credential lifecycle of the service: API keys (app/services/api_keys.py)*)
(* with the process-wide validation cache API_KEY_CACHE, and user signup   *)
(* (app/services/auth.py), over the two tables of app/models/auth.py.      *)
(*                                                                         *)
(* Time is counted in minutes.  Identities, names and secrets are small    *)
(* integers and strings.                                                   *)
(***************************************************************************)
EXTENDS Integers, FiniteSets, Sequences, TLC

(* ---------------------------------------------------------------- bounds *)
MaxKeys == 2
MaxTicks == 2

(* ------------------------------------------------------ program constants *)
API_KEY_EXPIRE_DAYS == 365
CACHE_TTL_MINUTES == 5
MinutesPerDay == 1440
NULL == -1

(* ------------------------------------------------------------ input sets *)
UserIds == {1, 2}
Names == {"ci"}
KeyIds == 1 .. MaxKeys
MaxPlain == MaxKeys + 1
(* a string that is no key's secret: generate_api_key never returns it *)
UnknownPlain == MaxPlain
ExpiresInDays == {1}
Advances == {1, CACHE_TTL_MINUTES, MinutesPerDay}

(* get_key_hash: deterministic, injective, and never the plaintext itself *)
get_key_hash(plain) == plain + MaxPlain

VARIABLES
    apiKeys,    \* table api_keys: id -> row
    cache,      \* API_KEY_CACHE: key_hash -> (result, valid_until)
    now,        \* datetime.utcnow(), in minutes
    ticks,      \* number of clock advances so far
    issued,     \* what create_api_key has returned: id -> (plain, user_id, name)
    dirty,      \* ids whose object carries an uncommitted `key` in the open session
    lastOp,     \* the last service call, its outcome and what it followed
    proc,       \* concurrent request workers: where each stands in its call
    revoked,    \* ids of the keys for which a revoke_api_key call has returned
    served,     \* ids of the keys a validate_api_key call that began after the
                \* key's revoke had returned has answered with success

    users,      \* table users: id -> row
    lastUserOp, \* the last signup or login call and its outcome
    sproc,      \* concurrent signup workers: where each stands in create_user
    sret        \* what each signup worker's last create_user call ended with

vars ==
    <<apiKeys, cache, now, ticks, issued, dirty, lastOp, proc, revoked, served,
      users, lastUserOp, sproc, sret>>

userVars == <<users, lastUserOp, sproc, sret>>
keyVars == <<apiKeys, cache, now, ticks, issued, dirty, lastOp, proc, revoked, served>>

seqVars == <<dirty, lastOp>>
concVars == <<proc, revoked, served>>

(* ------------------------------------------------------------ the store *)
NewRow(id, key_hash, name, user_id, expires_at) ==
    [id |-> id, key |-> NULL, key_hash |-> key_hash, name |-> name,
     user_id |-> user_id, created_at |-> now, expires_at |-> expires_at,
     is_revoked |-> FALSE, last_used_at |-> NULL]

(* Query.first(): the row with the least id among the rows found *)
First(rows) == CHOOSE r \in rows : \A q \in rows : r.id <= q.id

FindActiveByOwnerAndName(table, user_id, name) ==
    {table[i] : i \in {j \in DOMAIN table :
        /\ table[j].user_id = user_id
        /\ table[j].name = name
        /\ table[j].is_revoked = FALSE}}

FindByOwnerAndName(table, user_id, name) ==
    {table[i] : i \in {j \in DOMAIN table :
        table[j].user_id = user_id /\ table[j].name = name}}

FindRevokedByHash(table, key_hash) ==
    {table[i] : i \in {j \in DOMAIN table :
        table[j].key_hash = key_hash /\ table[j].is_revoked = TRUE}}

FindActiveByHash(table, key_hash) ==
    {table[i] : i \in {j \in DOMAIN table :
        table[j].key_hash = key_hash /\ table[j].is_revoked = FALSE}}

FindById(table, key_id, user_id) ==
    {table[i] : i \in {j \in DOMAIN table : table[j].id = key_id}}

FindByIdAndOwner(table, key_id, user_id) ==
    {table[i] : i \in {j \in DOMAIN table :
        table[j].id = key_id /\ table[j].user_id = user_id}}

list_user_api_keys(table, user_id) ==
    {table[i] : i \in {j \in DOMAIN table : table[j].user_id = user_id}}

(* the next value of the api_keys.id sequence *)
NextId == Cardinality(DOMAIN issued) + 1

(* generate_api_key: a secret never produced before; secrets are            *)
(* interchangeable, so the least unused one stands for any of them          *)
generate_api_key == NextId

(* db.commit(): the unit of work writes the pending attributes of the       *)
(* session's objects; `key` is a mapped column, so an assigned `key` is one *)
Flush(table, pending) ==
    [i \in DOMAIN table |->
        IF i \in pending
        THEN [table[i] EXCEPT !.key = issued[i].plain]
        ELSE table[i]]

Put(f, k, v) == [x \in DOMAIN f \cup {k} |-> IF x = k THEN v ELSE f[x]]

Drop(f, ks) == [x \in DOMAIN f \ ks |-> f[x]]

(* ------------------------------------------------------------ the cache *)
AnonymousResult(row) ==
    [api_key_id |-> row.id, user_id |-> NULL, name |-> row.name,
     type |-> "service"]

CacheResult(row) ==
    [api_key_id |-> row.id, user_id |-> row.user_id, name |-> row.name,
     type |-> "service"]

NoResult == [api_key_id |-> NULL, user_id |-> NULL, name |-> "", type |-> ""]

CacheNeverHit(c, key_hash, t) == FALSE

CacheHitUntil(c, key_hash, t) ==
    key_hash \in DOMAIN c /\ t <= c[key_hash].valid_until

CacheHit(c, key_hash, t) == key_hash \in DOMAIN c /\ t < c[key_hash].valid_until

(* the cache after the lookup of lines 86-94: an expired entry is deleted *)
CacheAfterLookup(c, key_hash, t) ==
    IF key_hash \in DOMAIN c /\ ~(t < c[key_hash].valid_until)
    THEN Drop(c, {key_hash})
    ELSE c

CacheValidLonger(t) == t + CACHE_TTL_MINUTES + 1

CacheValidUntil(t) == t + CACHE_TTL_MINUTES

CachePut(c, key_hash, result, t) ==
    Put(c, key_hash, [result |-> result, valid_until |-> CacheValidUntil(t)])

AllKeys(c, key_id) == DOMAIN c

keys_to_remove(c, key_id) == {k \in DOMAIN c : c[k].result.api_key_id = key_id}

NoInvalidate(c, key_id) == c

InvalidateById(c, key_id) == Drop(c, keys_to_remove(c, key_id))

(* whether a lookup at time t would be served an entry of key_id *)
Cached(c, key_id, t) == \E k \in keys_to_remove(c, key_id) : t < c[k].valid_until

(* ------------------------------------------------------- call records *)
(* The last service call.  key_id: the key the call is about; cached:       *)
(* whether the cache held an entry of that key when a successful revoke or  *)
(* delete began; seq: the call before it, when that call succeeded and was  *)
(* about the same key; gap: whether the clock advanced between that call    *)
(* and this one; fresh: the clock has not advanced since this call returned; *)
(* evicted: the cache held an entry of the presented secret that was at or  *)
(* past its valid-until instant when the validate call began                *)
NoOp ==
    [op |-> "none", key_id |-> NULL, out |-> "", res |-> NoResult, path |-> "",
     cached |-> FALSE, seq |-> "", gap |-> FALSE, fresh |-> FALSE,
     evicted |-> FALSE]

Follows(key_id) ==
    IF lastOp.out = "ok" /\ lastOp.key_id = key_id /\ lastOp.op # "validate"
    THEN IF lastOp.cached THEN lastOp.op \o "_cached" ELSE lastOp.op
    ELSE ""

Record(op, key_id, out, cached) ==
    [op |-> op, key_id |-> key_id, out |-> out, res |-> NoResult, path |-> "",
     cached |-> out = "ok" /\ cached, seq |-> "", gap |-> FALSE, fresh |-> TRUE,
     evicted |-> FALSE]

Validated(key_id, out, res, path) ==
    [op |-> "validate", key_id |-> key_id, out |-> out, res |-> res,
     path |-> path, cached |-> FALSE, seq |-> Follows(key_id),
     gap |-> Follows(key_id) # "" /\ ~lastOp.fresh, fresh |-> TRUE,
     evicted |-> \E k \in DOMAIN cache :
                    /\ cache[k].result.api_key_id = key_id
                    /\ cache[k].valid_until <= now]

(* what a caller can present to validate_api_key: a secret create_api_key   *)
(* has returned, or a string that is no key's secret                        *)
Presentable == {issued[i].plain : i \in DOMAIN issued} \cup {UnknownPlain}

(* the key a secret was issued for, NULL for a secret never issued *)
KeyOfPlain(plain) ==
    IF \E i \in DOMAIN issued : issued[i].plain = plain
    THEN CHOOSE i \in DOMAIN issued : issued[i].plain = plain
    ELSE NULL

Workers == {1, 2}

(* The last signup, login or deactivation.  emailTaken, usernameTaken: what  *)
(* the users table held when the call began; verified: the password given   *)
(* is the one the user of that username signed up with; active: that user's *)
(* is_active flag; before: the users table when the call began; sub: the    *)
(* subject of the session token issued, NULL when none was                  *)
NoUserOp ==
    [op |-> "none", email |-> "", username |-> "", out |-> "",
     emailTaken |-> FALSE, usernameTaken |-> FALSE, verified |-> FALSE,
     active |-> FALSE, before |-> <<>>, sub |-> NULL]

SignupIdle == [pc |-> "idle", email |-> "", username |-> "", password |-> ""]

(* a worker between two calls *)
Idle ==
    [pc |-> "idle", plain |-> NULL, key_id |-> NULL, user_id |-> NULL,
     name |-> "", days |-> NULL, ts |-> NULL, rm |-> {}, late |-> FALSE]

Init ==
    /\ users = <<>>
    /\ lastUserOp = NoUserOp
    /\ sproc = [w \in Workers |-> SignupIdle]
    /\ sret = [w \in Workers |-> ""]
    /\ proc = [w \in Workers |-> Idle]
    /\ revoked = {}
    /\ served = {}
    /\ apiKeys = <<>>
    /\ cache = <<>>
    /\ now = 0
    /\ ticks = 0
    /\ issued = <<>>
    /\ dirty = {}
    /\ lastOp = NoOp

Log(rec) == lastOp' = rec

(* ------------------------------------------------------ create_api_key *)
ExpireDays(expires_in_days) ==
    IF expires_in_days = NULL THEN API_KEY_EXPIRE_DAYS ELSE expires_in_days

ExpiresAt(t, expires_in_days) == t + ExpireDays(expires_in_days) * MinutesPerDay

NameTaken(table, user_id, name) == FindByOwnerAndName(table, user_id, name) # {}

create_api_key(user_id, name, expires_in_days) ==
    IF NameTaken(apiKeys, user_id, name)
    THEN /\ Log(Record("create", NULL, "DuplicateKeyName", FALSE))
         /\ UNCHANGED <<apiKeys, cache, now, ticks, issued, dirty, concVars, userVars>>
    ELSE /\ NextId <= MaxKeys
         /\ apiKeys' = Put(Flush(apiKeys, dirty), NextId,
                           NewRow(NextId, get_key_hash(generate_api_key), name,
                                  user_id, ExpiresAt(now, expires_in_days)))
         /\ issued' = Put(issued, NextId, [plain |-> generate_api_key,
                                           user_id |-> user_id, name |-> name])
         /\ dirty' = {NextId}
         /\ Log(Record("create", NextId, "ok", FALSE))
         /\ UNCHANGED <<cache, now, ticks, concVars, userVars>>

(* ---------------------------------------------------- validate_api_key *)
NeverExpired(row, t) == FALSE

Expired(row, t) == row.expires_at < t

validate_api_key(plain) ==
    LET key_hash == get_key_hash(plain)
        found == FindActiveByHash(apiKeys, key_hash)
        api_key == First(found)
        result == CacheResult(api_key)
    IN  IF CacheHit(cache, key_hash, now)
        THEN /\ Log(Validated(KeyOfPlain(plain), "ok", cache[key_hash].result,
                              "cache"))
             /\ UNCHANGED <<apiKeys, cache, now, ticks, issued, dirty, concVars, userVars>>
        ELSE IF found = {}
        THEN /\ cache' = CacheAfterLookup(cache, key_hash, now)
             /\ Log(Validated(KeyOfPlain(plain), "None", NoResult, "store"))
             /\ UNCHANGED <<apiKeys, now, ticks, issued, dirty, concVars, userVars>>
        ELSE IF Expired(api_key, now)
        THEN /\ cache' = CacheAfterLookup(cache, key_hash, now)
             /\ Log(Validated(KeyOfPlain(plain), "KeyExpired", NoResult, "store"))
             /\ UNCHANGED <<apiKeys, now, ticks, issued, dirty, concVars, userVars>>
        ELSE /\ apiKeys' = [Flush(apiKeys, dirty)
                              EXCEPT ![api_key.id].last_used_at = now]
             /\ dirty' = {}
             /\ cache' = CachePut(CacheAfterLookup(cache, key_hash, now),
                                  key_hash, result, now)
             /\ Log(Validated(KeyOfPlain(plain), "ok", result, "store"))
             /\ UNCHANGED <<now, ticks, issued, concVars, userVars>>

(* ------------------------------------------------------ revoke_api_key *)
revoke_api_key(key_id, user_id) ==
    IF FindByIdAndOwner(apiKeys, key_id, user_id) = {}
    THEN /\ Log(Record("revoke", key_id, "KeyNotFound", FALSE))
         /\ UNCHANGED <<apiKeys, cache, now, ticks, issued, dirty, concVars, userVars>>
    ELSE /\ apiKeys' = [Flush(apiKeys, dirty) EXCEPT ![key_id].is_revoked = TRUE]
         /\ dirty' = {}
         /\ cache' = InvalidateById(cache, key_id)
         /\ Log(Record("revoke", key_id, "ok", Cached(cache, key_id, now)))
         /\ UNCHANGED <<now, ticks, issued, concVars, userVars>>

(* ------------------------------------------------------ delete_api_key *)
KeepRow(table, key_id) == table

DeleteRow(table, key_id) == Drop(table, {key_id})

delete_api_key(key_id, user_id) ==
    IF FindByIdAndOwner(apiKeys, key_id, user_id) = {}
    THEN /\ Log(Record("delete", key_id, "KeyNotFound", FALSE))
         /\ UNCHANGED <<apiKeys, cache, now, ticks, issued, dirty, concVars, userVars>>
    ELSE /\ cache' = InvalidateById(cache, key_id)
         /\ apiKeys' = DeleteRow(Flush(apiKeys, dirty \ {key_id}), key_id)
         /\ dirty' = {}
         /\ Log(Record("delete", key_id, "ok", Cached(cache, key_id, now)))
         /\ UNCHANGED <<now, ticks, issued, concVars, userVars>>

(* ------------------------------------------------------- environment *)
(* the request ends: its session is closed and the pending `key` is lost *)
CloseSession ==
    /\ dirty # {}
    /\ dirty' = {}
    /\ UNCHANGED <<apiKeys, cache, now, ticks, issued, lastOp, concVars, userVars>>

Tick ==
    /\ ticks < MaxTicks
    /\ \E d \in Advances : now' = now + d
    /\ ticks' = ticks + 1
    /\ lastOp' = [lastOp EXCEPT !.fresh = FALSE]
    /\ UNCHANGED <<apiKeys, cache, issued, dirty, concVars, userVars>>

Create == \E u \in UserIds, n \in Names, d \in ExpiresInDays : create_api_key(u, n, d)
Validate == \E p \in Presentable : validate_api_key(p)
Revoke == \E k \in KeyIds, u \in UserIds : revoke_api_key(k, u)
Delete == \E k \in KeyIds, u \in UserIds : delete_api_key(k, u)

Next ==
    \/ Create
    \/ Validate
    \/ Revoke
    \/ Delete
    \/ CloseSession
    \/ Tick

Spec == Init /\ [][Next]_vars

(* ============================================ concurrent request workers *)
(* Each worker serves one call at a time in a session of its own, closed    *)
(* when the call returns; the store statements and the cache accesses of    *)
(* different workers interleave.                                            *)
Return(w) == proc' = [proc EXCEPT ![w] = Idle]

(* a validate_api_key call answers with success for key_id *)
Success(key_id, late) ==
    served' = IF late THEN served \cup {key_id} ELSE served

Goto(w, pc, changes) == proc' = [proc EXCEPT ![w] = [changes EXCEPT !.pc = pc]]

At(w, pc) == proc[w].pc = pc

(* ---- validate_api_key, lines 83-94: the cache check *)
VBegin(w, plain) ==
    LET key_hash == get_key_hash(plain)
        late == KeyOfPlain(plain) \in revoked
    IN  /\ At(w, "idle")
        /\ IF CacheHit(cache, key_hash, now)
           THEN /\ Success(cache[key_hash].result.api_key_id, late)
                /\ UNCHANGED <<cache, proc>>
           ELSE /\ cache' = CacheAfterLookup(cache, key_hash, now)
                /\ Goto(w, "v_query",
                        [proc[w] EXCEPT !.plain = plain, !.late = late])
                /\ UNCHANGED served
        /\ UNCHANGED <<apiKeys, now, ticks, issued, revoked, seqVars, userVars>>

(* ---- lines 96-109: the store read and the expiry check *)
VQuery(w) ==
    LET found == FindActiveByHash(apiKeys, get_key_hash(proc[w].plain))
        api_key == First(found)
    IN  /\ At(w, "v_query")
        /\ IF found = {}
           THEN Return(w)
           ELSE IF Expired(api_key, now)
           THEN Return(w)
           ELSE Goto(w, "v_stamp",
                     [proc[w] EXCEPT !.key_id = api_key.id,
                                     !.user_id = api_key.user_id,
                                     !.name = api_key.name])
        /\ UNCHANGED <<apiKeys, cache, now, ticks, issued, revoked, served, seqVars, userVars>>

(* ---- line 112: the clock is read for last_used_at *)
VStamp(w) ==
    /\ At(w, "v_stamp")
    /\ Goto(w, "v_commit", [proc[w] EXCEPT !.ts = now])
    /\ UNCHANGED <<apiKeys, cache, now, ticks, issued, revoked, served, seqVars, userVars>>

(* ---- line 113: the UPDATE of the row read; it fails when the row is gone *)
VCommit(w) ==
    /\ At(w, "v_commit")
    /\ IF proc[w].key_id \in DOMAIN apiKeys
       THEN /\ apiKeys' = [apiKeys EXCEPT ![proc[w].key_id].last_used_at = proc[w].ts]
            /\ Goto(w, "v_put", proc[w])
       ELSE /\ Return(w)
            /\ UNCHANGED apiKeys
    /\ UNCHANGED <<cache, now, ticks, issued, revoked, served, seqVars, userVars>>

(* ---- lines 115-125: the cache put of the row as it was read *)
VPut(w) ==
    /\ At(w, "v_put")
    /\ cache' = CachePut(cache, get_key_hash(proc[w].plain),
                         [api_key_id |-> proc[w].key_id,
                          user_id |-> proc[w].user_id, name |-> proc[w].name,
                          type |-> "service"], now)
    /\ Success(proc[w].key_id, proc[w].late)
    /\ Return(w)
    /\ UNCHANGED <<apiKeys, now, ticks, issued, revoked, seqVars, userVars>>

(* ---- revoke_api_key, lines 157-164: the lookup by id and owner *)
RBegin(w, key_id, user_id) ==
    /\ At(w, "idle")
    /\ IF FindByIdAndOwner(apiKeys, key_id, user_id) = {}
       THEN UNCHANGED proc
       ELSE Goto(w, "r_commit", [proc[w] EXCEPT !.key_id = key_id, !.late = FALSE])
    /\ UNCHANGED <<apiKeys, cache, now, ticks, issued, revoked, served, seqVars, userVars>>

(* ---- lines 166-168: is_revoked is committed and the row read again *)
RCommit(w) ==
    /\ At(w, "r_commit")
    /\ IF proc[w].key_id \in DOMAIN apiKeys
       THEN /\ apiKeys' = [apiKeys EXCEPT ![proc[w].key_id].is_revoked = TRUE]
            /\ Goto(w, "r_scan", proc[w])
       ELSE /\ Return(w)
            /\ UNCHANGED apiKeys
    /\ UNCHANGED <<cache, now, ticks, issued, revoked, served, seqVars, userVars>>

(* ---- lines 185-188: the scan of the cache for entries of the key *)
RScan(w) ==
    /\ At(w, "r_scan")
    /\ Goto(w, "r_remove", [proc[w] EXCEPT !.rm = keys_to_remove(cache, proc[w].key_id)])
    /\ UNCHANGED <<apiKeys, cache, now, ticks, issued, revoked, served, seqVars, userVars>>

(* ---- lines 190-193: the entries found are deleted; `del` of an entry     *)
(* another worker has removed meanwhile raises KeyError                     *)
RRemove(w) ==
    /\ At(w, "r_remove")
    /\ cache' = Drop(cache, proc[w].rm)
    /\ IF proc[w].rm \subseteq DOMAIN cache
       THEN /\ Return(w)
            /\ revoked' = revoked \cup {proc[w].key_id}
       ELSE /\ Return(w)
            /\ UNCHANGED revoked
    /\ UNCHANGED <<apiKeys, now, ticks, issued, served, seqVars, userVars>>

(* ---- delete_api_key, lines 208-215: the lookup by id and owner *)
DBegin(w, key_id, user_id) ==
    /\ At(w, "idle")
    /\ IF FindByIdAndOwner(apiKeys, key_id, user_id) = {}
       THEN UNCHANGED proc
       ELSE Goto(w, "d_scan", [proc[w] EXCEPT !.key_id = key_id, !.late = FALSE])
    /\ UNCHANGED <<apiKeys, cache, now, ticks, issued, revoked, served, seqVars, userVars>>

(* ---- lines 218-221 *)
DScan(w) ==
    /\ At(w, "d_scan")
    /\ Goto(w, "d_remove", [proc[w] EXCEPT !.rm = keys_to_remove(cache, proc[w].key_id)])
    /\ UNCHANGED <<apiKeys, cache, now, ticks, issued, revoked, served, seqVars, userVars>>

(* ---- lines 223-224 *)
DRemove(w) ==
    /\ At(w, "d_remove")
    /\ cache' = Drop(cache, proc[w].rm)
    /\ IF proc[w].rm \subseteq DOMAIN cache
       THEN Goto(w, "d_commit", [proc[w] EXCEPT !.rm = {}])
       ELSE Return(w)
    /\ UNCHANGED <<apiKeys, now, ticks, issued, revoked, served, seqVars, userVars>>

(* ---- lines 226-227: the DELETE; it fails when the row is already gone *)
DCommit(w) ==
    /\ At(w, "d_commit")
    /\ IF proc[w].key_id \in DOMAIN apiKeys
       THEN /\ apiKeys' = DeleteRow(apiKeys, proc[w].key_id)
            /\ Return(w)
       ELSE /\ Return(w)
            /\ UNCHANGED apiKeys
    /\ UNCHANGED <<cache, now, ticks, issued, revoked, served, seqVars, userVars>>

(* ---- create_api_key, lines 34-45: the check of the owner's names *)
Inserting == {w \in Workers : proc[w].pc = "c_insert"}

CBegin(w, user_id, name, expires_in_days) ==
    /\ At(w, "idle")
    /\ IF NameTaken(apiKeys, user_id, name)
       THEN UNCHANGED proc
       ELSE /\ NextId + Cardinality(Inserting) <= MaxKeys
            /\ Goto(w, "c_insert",
                    [proc[w] EXCEPT !.user_id = user_id, !.name = name,
                                    !.days = expires_in_days, !.late = FALSE])
    /\ UNCHANGED <<apiKeys, cache, now, ticks, issued, revoked, served, seqVars, userVars>>

(* ---- lines 47-66: the INSERT; api_keys has no constraint on the name *)
CInsert(w) ==
    /\ At(w, "c_insert")
    /\ apiKeys' = Put(apiKeys, NextId,
                      NewRow(NextId, get_key_hash(generate_api_key), proc[w].name,
                             proc[w].user_id, ExpiresAt(now, proc[w].days)))
    /\ issued' = Put(issued, NextId, [plain |-> generate_api_key,
                                      user_id |-> proc[w].user_id,
                                      name |-> proc[w].name])
    /\ Return(w)
    /\ UNCHANGED <<cache, now, ticks, revoked, served, seqVars, userVars>>

ValidateSteps ==
    \E w \in Workers :
        \/ \E p \in Presentable : VBegin(w, p)
        \/ VQuery(w)
        \/ VStamp(w)
        \/ VCommit(w)
        \/ VPut(w)

RevokeSteps ==
    \E w \in Workers :
        \/ \E k \in KeyIds, u \in UserIds : RBegin(w, k, u)
        \/ RCommit(w)
        \/ RScan(w)
        \/ RRemove(w)

DeleteSteps ==
    \E w \in Workers :
        \/ \E k \in KeyIds, u \in UserIds : DBegin(w, k, u)
        \/ DScan(w)
        \/ DRemove(w)
        \/ DCommit(w)

CreateSteps ==
    \E w \in Workers :
        \/ \E u \in UserIds, n \in Names, d \in ExpiresInDays : CBegin(w, u, n, d)
        \/ CInsert(w)

NextConc ==
    \/ ValidateSteps
    \/ RevokeSteps
    \/ DeleteSteps
    \/ CreateSteps

SpecConc == Init /\ [][NextConc]_vars

(* ---- workers creating and validating keys while the clock advances      *)
(* between their steps                                                      *)
NextConcClock ==
    \/ ValidateSteps
    \/ CreateSteps
    \/ Tick

SpecConcClock == Init /\ [][NextConcClock]_vars

(* ================================================= signup and login *)
Emails == {"alice@x.com", "bob@x.com", "carol@x.com"}
Usernames == {"alice", "bob"}
SignupPasswords == {"Str0ng!Pass"}
LoginPasswords == {"Str0ng!Pass", "Wr0ng!Pass"}

(* get_password_hash: salted, so no two calls give the same digest; the     *)
(* digest is not the password, and verify_password accepts exactly the      *)
(* password it was made from                                                *)
get_password_hash(password, salt) == [salt |-> salt, of |-> password]

verify_password(password, hashed) == hashed.of = password

NextUserId == Cardinality(DOMAIN users) + 1

NoneByEmail(table, email) == {}

FindByEmail(table, email) ==
    {table[i] : i \in {j \in DOMAIN table : table[j].email = email}}

FindByUsername(table, username) ==
    {table[i] : i \in {j \in DOMAIN table : table[j].username = username}}

(* the unique indexes of users.email and users.username *)
UniqueViolation(table, email, username) ==
    \E i \in DOMAIN table :
        table[i].email = email \/ table[i].username = username

NewUser(id, email, username, password) ==
    [id |-> id, email |-> email, username |-> username,
     hashed_password |-> get_password_hash(password, id),
     created_at |-> now, is_active |-> TRUE]

UserOp(op, email, username, password, out, sub) ==
    [op |-> op, email |-> email, username |-> username, out |-> out,
     emailTaken |-> \E i \in DOMAIN users : users[i].email = email,
     usernameTaken |-> \E i \in DOMAIN users : users[i].username = username,
     verified |-> \E i \in DOMAIN users :
                     /\ users[i].username = username
                     /\ users[i].hashed_password.of = password,
     active |-> \E i \in DOMAIN users :
                   users[i].username = username /\ users[i].is_active,
     before |-> users,
     sub |-> sub]

(* ---- create_user, one call in one piece *)
create_user(email, username, password) ==
    /\ IF FindByEmail(users, email) # {}
       THEN /\ lastUserOp' = UserOp("signup", email, username, password, "DuplicateEmail", NULL)
            /\ UNCHANGED users
       ELSE IF FindByUsername(users, username) # {}
       THEN /\ lastUserOp' = UserOp("signup", email, username, password, "DuplicateUsername", NULL)
            /\ UNCHANGED users
       ELSE IF UniqueViolation(users, email, username)
       THEN /\ lastUserOp' = UserOp("signup", email, username, password, "IntegrityError", NULL)
            /\ UNCHANGED users
       ELSE /\ users' = Put(users, NextUserId,
                            NewUser(NextUserId, email, username, password))
            /\ lastUserOp' = UserOp("signup", email, username, password, "ok", NextUserId)
    /\ UNCHANGED <<sproc, sret, keyVars>>

(* ---- authenticate_user *)
UserFound(found, password) == found # {}

AnyAccount(user) == TRUE

(* line 73: the user was found and the password verifies *)
CredentialsOk(found, password) ==
    found # {} /\ verify_password(password, First(found).hashed_password)

(* line 80 *)
AccountActive(user) == user.is_active

AuthOutcome(table, username, password) ==
    LET found == FindByUsername(table, username)
    IN  IF ~CredentialsOk(found, password)
        THEN "InvalidCredentials"
        ELSE IF ~AccountActive(First(found))
        THEN "InactiveAccount"
        ELSE "ok"

(* ---- login: authenticate_user, then create_user_token for its user *)
login(username, password) ==
    /\ lastUserOp' =
          UserOp("login", "", username, password,
                 AuthOutcome(users, username, password),
                 IF AuthOutcome(users, username, password) = "ok"
                 THEN First(FindByUsername(users, username)).id ELSE NULL)
    /\ UNCHANGED <<users, sproc, sret, keyVars>>

(* ---- the is_active column is cleared in the store, outside the service *)
Deactivate(user_id) ==
    /\ user_id \in DOMAIN users
    /\ users[user_id].is_active
    /\ users' = [users EXCEPT ![user_id].is_active = FALSE]
    /\ lastUserOp' = UserOp("deactivate", users[user_id].email,
                            users[user_id].username, "", "ok", NULL)
    /\ UNCHANGED <<sproc, sret, keyVars>>

Signup == \E e \in Emails, u \in Usernames, p \in SignupPasswords : create_user(e, u, p)
Login == \E u \in Usernames, p \in LoginPasswords : login(u, p)
Deactivation == \E i \in 1 .. Cardinality(Emails) : Deactivate(i)

NextUsers ==
    \/ Signup
    \/ Login
    \/ Deactivation

SpecUsers == Init /\ [][NextUsers]_vars

(* ---- create_user as concurrent workers run it, statement by statement *)
(* line 30: the query for the email *)
SEmail(w, email, username, password) ==
    /\ sproc[w].pc = "idle"
    /\ IF FindByEmail(users, email) # {}
       THEN /\ sret' = [sret EXCEPT ![w] = "DuplicateEmail"]
            /\ UNCHANGED sproc
       ELSE /\ sproc' = [sproc EXCEPT ![w] =
                    [pc |-> "s_username", email |-> email, username |-> username,
                     password |-> password]]
            /\ sret' = [sret EXCEPT ![w] = ""]
    /\ UNCHANGED <<users, lastUserOp, keyVars>>

(* line 36: the query for the username *)
SUsername(w) ==
    /\ sproc[w].pc = "s_username"
    /\ IF FindByUsername(users, sproc[w].username) # {}
       THEN /\ sret' = [sret EXCEPT ![w] = "DuplicateUsername"]
            /\ sproc' = [sproc EXCEPT ![w] = SignupIdle]
       ELSE /\ sproc' = [sproc EXCEPT ![w].pc = "s_insert"]
            /\ UNCHANGED sret
    /\ UNCHANGED <<users, lastUserOp, keyVars>>

(* lines 42-53: the INSERT; a violated unique index raises IntegrityError,  *)
(* which create_user does not catch                                         *)
SInsert(w) ==
    /\ sproc[w].pc = "s_insert"
    /\ IF UniqueViolation(users, sproc[w].email, sproc[w].username)
       THEN /\ sret' = [sret EXCEPT ![w] = "IntegrityError"]
            /\ UNCHANGED users
       ELSE /\ users' = Put(users, NextUserId,
                            NewUser(NextUserId, sproc[w].email, sproc[w].username,
                                    sproc[w].password))
            /\ sret' = [sret EXCEPT ![w] = "ok"]
    /\ sproc' = [sproc EXCEPT ![w] = SignupIdle]
    /\ UNCHANGED <<lastUserOp, keyVars>>

SignupSteps ==
    \E w \in Workers :
        \/ \E e \in Emails, u \in Usernames, p \in SignupPasswords : SEmail(w, e, u, p)
        \/ SUsername(w)
        \/ SInsert(w)

NextSignupRace == SignupSteps

SpecSignupRace == Init /\ [][NextSignupRace]_vars

(* ================================================================ claims *)
KeyIdsOf(rows) == {r.id : r \in rows}

(* C1: in a sequential history, the validate_api_key call that directly     *)
(* follows a successful revoke_api_key of the same key returns None, also   *)
(* when the key was in the cache when the revoke began, and whatever time   *)
(* passed in between.                                                       *)
C1_RevokeThenValidateAbsent ==
    (lastOp.op = "validate" /\ lastOp.seq \in {"revoke", "revoke_cached"})
        => lastOp.out = "None"

C1_Witness ==
    /\ lastOp.op = "validate"
    /\ lastOp.seq = "revoke_cached"
    /\ lastOp.out = "None"

(* C3: a validate_api_key call for a stored, non-revoked key whose          *)
(* expires_at lies before the time of the call fails with KeyExpired, also  *)
(* when the key was cached before it expired.                               *)
C3_ExpiredAlwaysFails ==
    (/\ lastOp.op = "validate"
     /\ lastOp.fresh
     /\ lastOp.key_id \in DOMAIN apiKeys
     /\ ~apiKeys[lastOp.key_id].is_revoked
     /\ apiKeys[lastOp.key_id].expires_at < now)
        => lastOp.out = "KeyExpired"

C5_DeletedKeyGone ==
    /\ (lastOp.op = "validate" /\ lastOp.key_id # NULL
            /\ lastOp.key_id \notin DOMAIN apiKeys) => lastOp.out = "None"
    /\ (lastOp.op = "validate" /\ lastOp.seq \in {"delete", "delete_cached"})
            => lastOp.out = "None"
    /\ (lastOp.op = "delete" /\ lastOp.out = "ok")
            => \A u \in UserIds :
                   lastOp.key_id \notin KeyIdsOf(list_user_api_keys(apiKeys, u))
    /\ \A i \in DOMAIN issued \ DOMAIN apiKeys, u \in UserIds :
           i \notin KeyIdsOf(list_user_api_keys(apiKeys, u))

C5_Witness ==
    /\ lastOp.op = "validate"
    /\ lastOp.seq = "delete_cached"
    /\ lastOp.out = "None"
    /\ lastOp.key_id \notin DOMAIN apiKeys

(* C10: the validate_api_key call made directly after a successful          *)
(* create_api_key, with the secret it returned and before the clock         *)
(* advances, succeeds and returns the id of the created key, the owner it   *)
(* was created for and the name it was given.                               *)
C10_CreatedKeyValidates ==
    (lastOp.op = "validate" /\ lastOp.seq = "create" /\ ~lastOp.gap)
        => /\ lastOp.out = "ok"
           /\ lastOp.res = [api_key_id |-> lastOp.key_id,
                            user_id |-> issued[lastOp.key_id].user_id,
                            name |-> issued[lastOp.key_id].name,
                            type |-> "service"]

C10_Witness ==
    /\ lastOp.op = "validate"
    /\ lastOp.seq = "create"
    /\ ~lastOp.gap
    /\ lastOp.out = "ok"
    /\ lastOp.path = "store"

(* C2: with interleaved workers, no validate_api_key call that begins       *)
(* after revoke_api_key has returned for a key answers with success for     *)
(* that key.                                                                *)
C2_NoSuccessAfterRevoke == served = {}

(* C6: with interleaved workers, once the delete of a key has committed     *)
(* the cache holds no entry whose api_key_id is that key.                   *)
C6_NoEntryOfDeletedKey ==
    \A k \in DOMAIN issued \ DOMAIN apiKeys : keys_to_remove(cache, k) = {}

(* C7: with interleaved workers, no owner has two api_keys rows with the    *)
(* same name.                                                               *)
C7_NameUniquePerOwner ==
    \A i, j \in DOMAIN apiKeys :
        (apiKeys[i].user_id = apiKeys[j].user_id /\ apiKeys[i].name = apiKeys[j].name)
            => i = j

(* C8: create_user with an email already stored ends with DuplicateEmail,   *)
(* with a fresh email and a username already stored with                    *)
(* DuplicateUsername; either way the users table is as it was before the    *)
(* call; and no two users rows share an email or a username.                *)
C8_DuplicateSignupRejected ==
    /\ (lastUserOp.op = "signup" /\ lastUserOp.emailTaken)
          => (lastUserOp.out = "DuplicateEmail" /\ users = lastUserOp.before)
    /\ (lastUserOp.op = "signup" /\ ~lastUserOp.emailTaken
            /\ lastUserOp.usernameTaken)
          => (lastUserOp.out = "DuplicateUsername" /\ users = lastUserOp.before)
    /\ \A i, j \in DOMAIN users :
          (users[i].email = users[j].email \/ users[i].username = users[j].username)
              => i = j

C8_Witness ==
    /\ lastUserOp.op = "signup"
    /\ ~lastUserOp.emailTaken
    /\ lastUserOp.usernameTaken
    /\ lastUserOp.out = "DuplicateUsername"
    /\ users = lastUserOp.before
    /\ users # <<>>

(* C9: when create_user calls race, no two users rows share an email or a   *)
(* username, and a call that loses the race on the INSERT ends with         *)
(* DuplicateEmail or DuplicateUsername: no call ends with the raw           *)
(* IntegrityError of the store.                                             *)
C9_RaceLoserGetsDuplicateError ==
    /\ \A i, j \in DOMAIN users :
          (users[i].email = users[j].email \/ users[i].username = users[j].username)
              => i = j
    /\ \A w \in Workers : sret[w] # "IntegrityError"

(* what the cache and the store hold for a digest when a call begins *)
EntryLive(key_hash) ==
    key_hash \in DOMAIN cache /\ now < cache[key_hash].valid_until

ActiveWithHash(key_hash) ==
    {i \in DOMAIN apiKeys :
        apiKeys[i].key_hash = key_hash /\ ~apiKeys[i].is_revoked}

(* C11: a validate_api_key call that is not served from the cache returns   *)
(* None exactly when no non-revoked row has the digest, and raises          *)
(* KeyExpired exactly when a non-revoked row has it and its expires_at lies *)
(* before the time of the call; with either outcome the api_keys table is   *)
(* as it was and the cache holds no entry of the digest.                    *)
C11_StorePathFailures ==
    [][\A p \in Presentable :
          LET key_hash == get_key_hash(p)
              active == ActiveWithHash(key_hash)
              expired == {i \in active : apiKeys[i].expires_at < now}
          IN  (validate_api_key(p) /\ ~EntryLive(key_hash)) =>
                 /\ lastOp'.path = "store"
                 /\ (lastOp'.out = "None") <=> (active = {})
                 /\ (lastOp'.out = "KeyExpired") <=> (expired # {})
                 /\ (lastOp'.out \in {"None", "KeyExpired"}) =>
                        /\ apiKeys' = apiKeys
                        /\ key_hash \notin DOMAIN cache']_vars

C11_Witness ==
    /\ lastOp.op = "validate"
    /\ lastOp.path = "store"
    /\ lastOp.out = "KeyExpired"
    /\ lastOp.evicted
    /\ lastOp.fresh
    /\ apiKeys[lastOp.key_id].last_used_at # NULL

(* C12: a login call issues a session token only for the user of the given  *)
(* username and only when that user's is_active flag is set when the call   *)
(* authenticates; for a user whose flag is cleared no token is issued,      *)
(* with the right password or a wrong one.                                  *)
C12_TokenOnlyForActiveUser ==
    (lastUserOp.op = "login") =>
        /\ (lastUserOp.sub # NULL) =>
               /\ lastUserOp.active
               /\ lastUserOp.before[lastUserOp.sub].username = lastUserOp.username
               /\ lastUserOp.before[lastUserOp.sub].is_active
        /\ (~lastUserOp.active) => (lastUserOp.sub = NULL /\ lastUserOp.out # "ok")

C12_Witness ==
    /\ lastUserOp.op = "login"
    /\ lastUserOp.usernameTaken
    /\ lastUserOp.verified
    /\ ~lastUserOp.active
    /\ lastUserOp.sub = NULL

(* C13: authenticate_user ends with InvalidCredentials when no user has the *)
(* username and when the password does not verify, for an active and for an *)
(* inactive user alike; it ends with InactiveAccount exactly when the user  *)
(* is found, the password verifies and is_active is cleared; and a failed   *)
(* call leaves the users table as it was.                                   *)
C13_AuthFailureOutcomes ==
    (lastUserOp.op = "login") =>
        /\ (~lastUserOp.usernameTaken \/ ~lastUserOp.verified)
               => lastUserOp.out = "InvalidCredentials"
        /\ (lastUserOp.out = "InactiveAccount")
               <=> (/\ lastUserOp.usernameTaken
                    /\ lastUserOp.verified
                    /\ ~lastUserOp.active)
        /\ (lastUserOp.out # "ok") => users = lastUserOp.before

C13_Witness ==
    /\ lastUserOp.op = "login"
    /\ lastUserOp.usernameTaken
    /\ ~lastUserOp.verified
    /\ ~lastUserOp.active
    /\ lastUserOp.out = "InvalidCredentials"
    /\ users = lastUserOp.before

(* C14: a validate_api_key call made while the cache holds an entry of the  *)
(* digest that is not past its valid-until instant is served from the       *)
(* cache and leaves the api_keys table as it was; and the last_used_at of a *)
(* row changes only in a validate_api_key call for that key that is not     *)
(* served from the cache.                                                   *)
C14_CacheHitLeavesStore ==
    [][/\ \A p \in Presentable :
            (validate_api_key(p) /\ EntryLive(get_key_hash(p))) =>
                /\ lastOp'.path = "cache"
                /\ apiKeys' = apiKeys
       /\ \A i \in DOMAIN apiKeys \cap DOMAIN apiKeys' :
            (apiKeys'[i].last_used_at # apiKeys[i].last_used_at) =>
                /\ ~EntryLive(apiKeys[i].key_hash)
                /\ lastOp'.op = "validate"
                /\ lastOp'.key_id = i
                /\ lastOp'.path = "store"
                /\ lastOp'.out = "ok"]_vars

(* the key was validated from the store, the clock advanced, and the call   *)
(* was served from the cache: last_used_at stays behind the clock           *)
C14_Witness ==
    /\ lastOp.op = "validate"
    /\ lastOp.path = "cache"
    /\ lastOp.out = "ok"
    /\ lastOp.fresh
    /\ lastOp.key_id \in DOMAIN apiKeys
    /\ apiKeys[lastOp.key_id].last_used_at # NULL
    /\ apiKeys[lastOp.key_id].last_used_at < now

(* C15: revoke_api_key and delete_api_key called with a key_id that no row  *)
(* has, or whose row belongs to another user, both end with KeyNotFound and *)
(* leave the api_keys table and the cache as they were; a validate_api_key  *)
(* call that follows for a key that is stored, not revoked and not expired  *)
(* succeeds.                                                                *)
C15_WrongOwnerKeyNotFound ==
    [][/\ \A k \in KeyIds, u \in UserIds :
            ((revoke_api_key(k, u) \/ delete_api_key(k, u))
                /\ (k \notin DOMAIN apiKeys \/ apiKeys[k].user_id # u)) =>
                    /\ lastOp'.out = "KeyNotFound"
                    /\ lastOp'.key_id = k
                    /\ apiKeys' = apiKeys
                    /\ cache' = cache
       /\ \A p \in Presentable :
            (/\ validate_api_key(p)
             /\ lastOp.out = "KeyNotFound"
             /\ lastOp.key_id = KeyOfPlain(p)
             /\ lastOp.key_id \in DOMAIN apiKeys
             /\ ~apiKeys[lastOp.key_id].is_revoked
             /\ ~(apiKeys[lastOp.key_id].expires_at < now)) =>
                    /\ lastOp'.out = "ok"
                    /\ lastOp'.res.api_key_id = lastOp.key_id
                    /\ lastOp'.res.user_id = apiKeys[lastOp.key_id].user_id]_vars

(* another user's revoke or delete of a stored, cached key was refused *)
C15_Witness ==
    /\ lastOp.op \in {"revoke", "delete"}
    /\ lastOp.out = "KeyNotFound"
    /\ lastOp.key_id \in DOMAIN apiKeys
    /\ ~apiKeys[lastOp.key_id].is_revoked
    /\ \E k \in DOMAIN cache : cache[k].result.api_key_id = lastOp.key_id

(* C16: with interleaved workers and an advancing clock, the last_used_at   *)
(* of a stored row, once set, never changes to an earlier instant.          *)
C16_LastUsedNeverDecreases ==
    [][\A i \in DOMAIN apiKeys \cap DOMAIN apiKeys' :
          (apiKeys[i].last_used_at # NULL) =>
              apiKeys'[i].last_used_at >= apiKeys[i].last_used_at]_vars

(* C17: a validate_api_key call made at time t while the cache holds an     *)
(* entry of the digest with valid-until instant e returns the entry's       *)
(* result, and leaves the cache as it is, exactly when t < e; when t >= e   *)
(* the call goes to the store and the entry is gone from the cache: what    *)
(* the cache holds for the digest afterwards, if anything, is the entry a   *)
(* successful store validation has just put.                                *)
C17_CacheHitIffBeforeValidUntil ==
    [][\A p \in Presentable :
          LET key_hash == get_key_hash(p)
          IN  (validate_api_key(p) /\ key_hash \in DOMAIN cache) =>
                 /\ (now < cache[key_hash].valid_until) =>
                        /\ lastOp'.path = "cache"
                        /\ lastOp'.out = "ok"
                        /\ lastOp'.res = cache[key_hash].result
                        /\ cache' = cache
                 /\ (now >= cache[key_hash].valid_until) =>
                        /\ lastOp'.path = "store"
                        /\ (key_hash \in DOMAIN cache') =>
                               /\ lastOp'.out = "ok"
                               /\ cache'[key_hash].valid_until > now]_vars

(* a call made exactly at the valid-until instant of the entry went to the  *)
(* store                                                                    *)
C17_Witness ==
    /\ lastOp.op = "validate"
    /\ lastOp.path = "store"
    /\ lastOp.evicted
    /\ lastOp.fresh
    /\ lastOp.out = "ok"
    /\ \E k \in DOMAIN cache :
           /\ cache[k].result.api_key_id = lastOp.key_id
           /\ cache[k].valid_until = now + CACHE_TTL_MINUTES
    /\ now = CACHE_TTL_MINUTES

(* C18: a successful revoke_api_key or delete_api_key of key_id leaves no   *)
(* cache entry whose api_key_id is key_id and leaves every other entry in   *)
(* the cache with its digest, result and valid-until instant as they were.  *)
C18_PointInvalidation ==
    [][\A k \in KeyIds, u \in UserIds :
          (/\ revoke_api_key(k, u) \/ delete_api_key(k, u)
           /\ k \in DOMAIN apiKeys
           /\ apiKeys[k].user_id = u) =>
              /\ lastOp'.out = "ok"
              /\ \A h \in DOMAIN cache' : cache'[h].result.api_key_id # k
              /\ \A h \in DOMAIN cache :
                     (cache[h].result.api_key_id # k) =>
                         (h \in DOMAIN cache' /\ cache'[h] = cache[h])]_vars

(* the key revoked or deleted was cached, and so is another key still *)
C18_Witness ==
    /\ lastOp.op \in {"revoke", "delete"}
    /\ lastOp.out = "ok"
    /\ lastOp.cached
    /\ \E h \in DOMAIN cache :
           /\ cache[h].result.api_key_id # lastOp.key_id
           /\ now < cache[h].valid_until

(* C19: create_api_key(owner, n) ends with DuplicateKeyName exactly when a  *)
(* row of that owner has the name n, revoked or not: a revoked key keeps    *)
(* its name taken, and the name is free again once the row is deleted.      *)
C19_RevokedKeyKeepsName ==
    [][\A u \in UserIds, n \in Names, d \in ExpiresInDays :
          create_api_key(u, n, d) =>
              /\ (\E i \in DOMAIN apiKeys :
                      /\ apiKeys[i].user_id = u
                      /\ apiKeys[i].name = n
                      /\ apiKeys[i].is_revoked)
                    => (lastOp'.out = "DuplicateKeyName" /\ apiKeys' = apiKeys)
              /\ (lastOp'.out = "ok")
                    <=> (\A i \in DOMAIN apiKeys :
                            apiKeys[i].user_id # u \/ apiKeys[i].name # n)]_vars

(* a create was refused although every stored key is revoked *)
C19_Witness ==
    /\ lastOp.op = "create"
    /\ lastOp.out = "DuplicateKeyName"
    /\ lastOp.fresh
    /\ apiKeys # <<>>
    /\ \A i \in DOMAIN apiKeys : apiKeys[i].is_revoked

(* an entry of the cache agrees with the store *)
EntryConsistent(key_hash, entry, table) ==
    \E i \in DOMAIN table :
        /\ table[i].key_hash = key_hash
        /\ ~table[i].is_revoked
        /\ table[i].last_used_at # NULL
        /\ entry.result = [api_key_id |-> table[i].id,
                           user_id |-> table[i].user_id,
                           name |-> table[i].name, type |-> "service"]

(* C20: in sequential histories every cache entry is under the key_hash of  *)
(* a stored, non-revoked row and carries that row's id, user_id and name;   *)
(* an entry appears or changes only in a validate_api_key call that         *)
(* succeeded on the store path for that key; and an entry disappears only   *)
(* in a successful revoke or delete of its key or in a validate_api_key     *)
(* call for its key made at or after its valid-until instant.               *)
C20_CacheConsistentWithStore ==
    [][/\ \A h \in DOMAIN cache' : EntryConsistent(h, cache'[h], apiKeys')
       /\ \A h \in DOMAIN cache' :
            (h \notin DOMAIN cache \/ cache'[h] # cache[h]) =>
                /\ lastOp'.op = "validate"
                /\ lastOp'.path = "store"
                /\ lastOp'.out = "ok"
                /\ lastOp'.key_id = cache'[h].result.api_key_id
                /\ ~EntryLive(h)
       /\ \A h \in DOMAIN cache \ DOMAIN cache' :
            /\ lastOp'.key_id = cache[h].result.api_key_id
            /\ \/ lastOp'.op \in {"revoke", "delete"} /\ lastOp'.out = "ok"
               \/ /\ lastOp'.op = "validate"
                  /\ lastOp'.path = "store"
                  /\ now >= cache[h].valid_until]_vars

(* two keys are cached, one of them again after its entry was evicted *)
C20_Witness ==
    /\ lastOp.op = "validate"
    /\ lastOp.path = "store"
    /\ lastOp.out = "ok"
    /\ lastOp.evicted
    /\ Cardinality(DOMAIN cache) = 2
    /\ \A h \in DOMAIN cache : EntryConsistent(h, cache[h], apiKeys)

(* C21: in sequential histories a validate_api_key call that succeeds on    *)
(* the store path leaves an entry whose valid-until instant is 5 minutes    *)
(* after the call; a call is served from the cache only less than 5 minutes *)
(* after the last store-path validation of the key; and a call made less    *)
(* than 5 minutes after it, for a key that has not been revoked or deleted  *)
(* since, is served from the cache.                                         *)
C21_FiveMinuteWindow ==
    [][\A p \in Presentable :
          LET key_hash == get_key_hash(p)
              k == KeyOfPlain(p)
              stored == k \in DOMAIN apiKeys
          IN  validate_api_key(p) =>
                 /\ (lastOp'.path = "store" /\ lastOp'.out = "ok") =>
                        /\ key_hash \in DOMAIN cache'
                        /\ cache'[key_hash].valid_until = now + 5
                 /\ (lastOp'.path = "cache") =>
                        /\ stored
                        /\ apiKeys[k].last_used_at # NULL
                        /\ now < apiKeys[k].last_used_at + 5
                 /\ (/\ stored
                     /\ ~apiKeys[k].is_revoked
                     /\ apiKeys[k].last_used_at # NULL
                     /\ now < apiKeys[k].last_used_at + 5) =>
                        /\ lastOp'.path = "cache"
                        /\ lastOp'.out = "ok"
                        /\ lastOp'.res.api_key_id = k]_vars

(* the call was served from the cache two minutes after the store           *)
(* validation of the key                                                    *)
C21_Witness ==
    /\ lastOp.op = "validate"
    /\ lastOp.path = "cache"
    /\ lastOp.out = "ok"
    /\ lastOp.fresh
    /\ lastOp.key_id \in DOMAIN apiKeys
    /\ apiKeys[lastOp.key_id].last_used_at # NULL
    /\ now = apiKeys[lastOp.key_id].last_used_at + 2

====
